---- MODULE Spec2Model ----
(***************************************************************************)
(* Model of the data-preparation and aggregation pipeline of the           *)
(* public-transportation notebook (src/MSBA_Publictransportation_app.py):  *)
(* the CSV load, the Governorate derivation, the per-governorate mean,     *)
(* the transport-mode sums and the service severity / coverage tables.     *)
(*                                                                         *)
(* Numbers the notebook computes with "/" and ".mean()" are IEEE-754       *)
(* binary64 values.  They are modelled bit-exactly: a double is a 53-bit   *)
(* significand (a bit sequence, least significant bit first) and a binary  *)
(* exponent, and division / multiplication round to nearest, ties to even. *)
(***************************************************************************)
EXTENDS Integers, Sequences, FiniteSets, TLC

(***************************************************************************)
(* Bounds of the model.                                                    *)
(***************************************************************************)
MaxRows    == 3     \* rows of a generated region data set
MaxSvcRows == 3     \* rows of a generated service data set
MaxSeries  == 3     \* points of a series handed to correlation
MaxValue   == 2     \* largest value in such a series
MaxRerunRows == 2   \* rows of a data set that is aggregated repeatedly
MaxCalls   == 3     \* aggregate calls made on such a data set
MaxReruns  == 4     \* runs of the counter script

\* no table of the model has more rows than this (Scenario 1 has four)
MaxCount == MaxRows + MaxSvcRows + 4

(***************************************************************************)
(* Unbounded naturals as bit sequences, least significant bit first,       *)
(* without leading (high) zeros; <<>> is 0.                                *)
(***************************************************************************)
RECURSIVE BFromInt(_)
BFromInt(n) ==
    IF n = 0 THEN <<>> ELSE <<n % 2>> \o BFromInt(n \div 2)

BPad(x, n) == x \o [i \in 1..(n - Len(x)) |-> 0]

\* Ripple-carry addition of bits i..j of x and y with carry-in c, by halves.
RECURSIVE BAddRange(_, _, _, _, _)
BAddRange(x, y, c, i, j) ==
    IF i = j
    THEN LET s == x[i] + y[i] + c
         IN  [bits |-> <<s % 2>>, c |-> s \div 2]
    ELSE LET mid == (i + j) \div 2
             lo  == BAddRange(x, y, c, i, mid)
             hi  == BAddRange(x, y, lo.c, mid + 1, j)
         IN  [bits |-> lo.bits \o hi.bits, c |-> hi.c]

BAdd(x, y) ==
    LET n == IF Len(x) > Len(y) THEN Len(x) ELSE Len(y) IN
    IF n = 0 THEN <<>>
    ELSE LET r == BAddRange(BPad(x, n), BPad(y, n), 0, 1, n)
         IN  IF r.c = 1 THEN r.bits \o <<1>> ELSE r.bits

BShl(x, k) ==
    IF x = <<>> \/ k <= 0 THEN x ELSE [i \in 1..k |-> 0] \o x

RECURSIVE BMulSmall(_, _)
BMulSmall(x, n) ==
    IF n = 0 \/ x = <<>>
    THEN <<>>
    ELSE BAdd(IF n % 2 = 1 THEN x ELSE <<>>,
              BShl(BMulSmall(x, n \div 2), 1))

BLess(x, y) ==
    \/ Len(x) < Len(y)
    \/ /\ Len(x) = Len(y)
       /\ \E i \in 1..Len(x) :
             /\ x[i] < y[i]
             /\ \A j \in (i+1)..Len(x) : x[j] = y[j]

(***************************************************************************)
(* binary64.  A finite non-negative double is [cls |-> "num", m, e] with   *)
(* value m * 2^e, where m is <<>> (zero) or has exactly MantBits bits.     *)
(* NaN is what numpy returns for 0/0.                                      *)
(***************************************************************************)
MantBits == 53

FZero == [cls |-> "num", m |-> <<>>, e |-> 0]
NaN   == [cls |-> "nan", m |-> <<>>, e |-> 0]

IsNaN(x) == x.cls = "nan"

\* Round the exact value n * 2^e (plus a non-zero tail below the last bit
\* when sticky) to the nearest double, ties to even.
RoundToDouble(n, e, sticky) ==
    LET L == Len(n) IN
    IF L = 0 THEN FZero
    ELSE IF L <= MantBits
    THEN [cls |-> "num", m |-> BShl(n, MantBits - L), e |-> e - (MantBits - L)]
    ELSE LET s     == L - MantBits
             kept  == SubSeq(n, s + 1, L)
             guard == n[s]
             tail  == sticky \/ \E i \in 1..(s - 1) : n[i] = 1
             up    == guard = 1 /\ (tail \/ kept[1] = 1)
             m1    == IF up THEN BAdd(kept, <<1>>) ELSE kept
         IN  IF Len(m1) > MantBits
             THEN [cls |-> "num", m |-> Tail(m1), e |-> e + s + 1]
             ELSE [cls |-> "num", m |-> m1, e |-> e + s]

\* 2^i mod b for 0 <= i <= 54, without leaving 32-bit integers.
Pow2Mod(i, b) ==
    IF i <= 27
    THEN (2^i) % b
    ELSE (((2^27) % b) * ((2^(i - 27)) % b)) % b

\* Long division: the first n quotient bits of r / b after the binary point
\* (r < b), least significant first, and the remainder left after them.
\* The remainder after i bits is (r * 2^i) mod b.
DivBits(r, b, n) ==
    LET remAfter(i) == (r * Pow2Mod(i, b)) % b
        bitAt(i)    == IF 2 * remAfter(i - 1) >= b THEN 1 ELSE 0
    IN  [bits |-> [j \in 1..n |-> bitAt(n + 1 - j)], rem |-> remAfter(n)]

RECURSIVE ScaleUp(_, _, _)
\* smallest k with a * 2^k >= b, returned with the scaled a
ScaleUp(a, b, k) ==
    IF a >= b THEN [v |-> a, k |-> k] ELSE ScaleUp(2 * a, b, k + 1)

RECURSIVE ScaleDown(_, _, _)
\* largest k with b * 2^k <= a, returned with the scaled b
ScaleDown(a, b, k) ==
    IF 2 * b > a THEN [v |-> b, k |-> k] ELSE ScaleDown(a, 2 * b, k + 1)

\* a / b for integers a >= 0, b >= 0 as numpy's true division computes it:
\* both operands become doubles, the quotient is correctly rounded, and
\* 0 / 0 is NaN (x / 0 with x > 0 is not used by the notebook: a count
\* never exceeds the number of rows).
DivideExact(a, b) ==
    IF b = 0 THEN NaN
    ELSE IF a = 0 THEN FZero
    ELSE LET up == ScaleUp(a, b, 0)
             dn == ScaleDown(a, b, 0)
             aa == IF a >= b THEN a ELSE up.v
             bb == IF a >= b THEN dn.v ELSE b
             t  == IF a >= b THEN dn.k ELSE 0 - up.k
             d  == DivBits(aa - bb, bb, MantBits + 1)
         IN  RoundToDouble(d.bits \o <<1>>, t - (MantBits + 1), d.rem # 0)

\* The quotients of all counts the model can meet, computed once.
QuotientTable ==
    [a \in 0..MaxCount |-> [b \in 0..MaxCount |-> DivideExact(a, b)]]

FDiv(a, b) == QuotientTable[a][b]

\* x * n for a double x and a small integer n (n is exact as a double).
FMulInt(x, n) ==
    IF IsNaN(x) THEN NaN
    ELSE RoundToDouble(BMulSmall(x.m, n), x.e, FALSE)

\* Exact comparison and exact sum of finite doubles, on a common exponent.
MinExp(x, y) == IF x.e < y.e THEN x.e ELSE y.e
Aligned(x, e0) == BShl(x.m, x.e - e0)

FLess(x, y) ==
    LET e0 == MinExp(x, y) IN BLess(Aligned(x, e0), Aligned(y, e0))

FLeq(x, y) == ~FLess(y, x)

(***************************************************************************)
(* Strings are sequences of characters.  A column name is a string whose   *)
(* characters are blanks and one word standing for the printable text.     *)
(***************************************************************************)
CharCode(c) ==
    CASE c = " " -> 32
      [] c = "/" -> 47
      [] c = "A" -> 65
      [] c = "B" -> 66
      [] c = "C" -> 67
      [] c = "a" -> 97
      [] OTHER   -> 120

\* Python's str ordering: lexicographic by code point, a proper prefix first.
StrLess(s, t) ==
    \/ /\ Len(s) < Len(t)
       /\ \A i \in 1..Len(s) : s[i] = t[i]
    \/ \E i \in 1..Len(s) :
          /\ i <= Len(t)
          /\ CharCode(s[i]) < CharCode(t[i])
          /\ \A j \in 1..(i - 1) : s[j] = t[j]

\* The missing value of a string column (pandas NaN).
NaNStr == <<"<NaN>">>

\* faulty variant: the pattern r'/(.+)$', the text after the first "/"
ExtractAfterFirst(s) ==
    IF \E i \in 1..(Len(s) - 1) : s[i] = "/"
    THEN LET i == CHOOSE k \in 1..(Len(s) - 1) :
                     s[k] = "/" /\ \A j \in 1..(k - 1) : s[j] # "/"
         IN  SubSeq(s, i + 1, Len(s))
    ELSE NaNStr

\* Series.str.extract(r'/([^/]+)$'): the text after the last "/", when it is
\* not empty; NaN when the string has no "/" or ends with one.
Extract(s) ==
    IF \E i \in 1..(Len(s) - 1) :
          s[i] = "/" /\ \A j \in (i + 1)..Len(s) : s[j] # "/"
    THEN LET i == CHOOSE k \in 1..(Len(s) - 1) :
                     s[k] = "/" /\ \A j \in (k + 1)..Len(s) : s[j] # "/"
         IN  SubSeq(s, i + 1, Len(s))
    ELSE NaNStr

\* str.strip(): drop leading and trailing blanks.
RECURSIVE LStrip(_)
LStrip(s) ==
    IF s # <<>> /\ Head(s) = " " THEN LStrip(Tail(s)) ELSE s

RECURSIVE RStrip(_)
RStrip(s) ==
    IF s # <<>> /\ s[Len(s)] = " "
    THEN RStrip(SubSeq(s, 1, Len(s) - 1))
    ELSE s

Strip(s) == RStrip(LStrip(s))

(***************************************************************************)
(* Column names of the notebook.                                           *)
(***************************************************************************)
RefArea     == <<"refArea">>
Governorate == <<"Governorate">>
MainGood    == <<"State of the main roads - good">>
MainBad     == <<"State of the main roads - bad">>
SecondBad   == <<"State of the secondary roads - bad">>
AgriBad     == <<"State of agricultural roads - bad">>
ElecBad     == <<"Electricity - bad">>
ElecGood    == <<"Electricity - good">>
WaterBad    == <<"Water Network - bad">>
WaterGood   == <<"Water Network - good">>
SewageBad   == <<"Sewage Network - bad">>
TelecomBad  == <<"Telecommunications - bad">>
InternetBad == <<"Internet - bad">>
InternetGood == <<"Internet - good">>
Buses       == <<"The main means of public transport - buses">>
Vans        == <<"The main means of public transport - vans">>
Taxis       == <<"The main means of public transport - taxis">>

\* service -> indicator column, in dict insertion order
infrastructure_mapping ==
    << <<"Main Roads", MainBad>>,
       <<"Secondary Roads", SecondBad>>,
       <<"Agricultural Roads", AgriBad>>,
       <<"Electricity", ElecBad>>,
       <<"Water Network", WaterBad>>,
       <<"Sewage Network", SewageBad>>,
       <<"Telecommunications", TelecomBad>>,
       <<"Internet", InternetBad>> >>

basic_services ==
    << <<"Electricity", ElecGood>>,
       <<"Clean Water", WaterGood>>,
       <<"Internet Access", InternetGood>>,
       <<"Good Main Roads", MainGood>> >>

transport_columns ==
    << <<"Buses", Buses>>, <<"Vans", Vans>>, <<"Taxis", Taxis>> >>

(***************************************************************************)
(* Data frames: a sequence of column names and a sequence of rows, each    *)
(* row holding one value per column.  dtype is the dtype read_csv gives    *)
(* the indicator columns: int64, or object when the file has no data row.  *)
(* Before the first read_csv the name df is not bound.                     *)
(***************************************************************************)
Unbound == [columns |-> <<>>, rows |-> <<>>, dtype |-> "unbound"]

HasCol(d, c) == \E i \in 1..Len(d.columns) : d.columns[i] = c

ColIndex(d, c) == CHOOSE i \in 1..Len(d.columns) : d.columns[i] = c

Cell(d, r, c) == d.rows[r][ColIndex(d, c)]

RowCount(d) == Len(d.rows)

\* Series.sum() of a 0/1 column over the rows of d.
RECURSIVE SumUpTo(_, _, _)
SumUpTo(d, c, n) ==
    IF n = 0 THEN 0 ELSE SumUpTo(d, c, n - 1) + Cell(d, n, c)

\* faulty variant: Series.count() instead of Series.sum()
ColCount(d, c) == RowCount(d)

ColSum(d, c) == SumUpTo(d, c, RowCount(d))

\* pd.read_csv: the table of the file as it is; a file without data rows
\* gives object columns.
read_csv(f) ==
    [columns |-> f.columns,
     rows    |-> f.rows,
     dtype   |-> IF f.rows = <<>> THEN "object" ELSE "int64"]

\* df.columns = df.columns.str.strip()
StripColumnNames(d) ==
    [d EXCEPT !.columns = [i \in 1..Len(d.columns) |-> Strip(d.columns[i])]]

\* df['Governorate'] = df['refArea'].str.extract(...): a new last column, or
\* the existing Governorate column overwritten.
WithGovernorate(d) ==
    LET gov(r) == Extract(Cell(d, r, RefArea)) IN
    IF HasCol(d, Governorate)
    THEN [d EXCEPT !.rows =
            [r \in 1..RowCount(d) |->
                [d.rows[r] EXCEPT ![ColIndex(d, Governorate)] = gov(r)]]]
    ELSE [d EXCEPT !.columns = Append(d.columns, Governorate),
                   !.rows = [r \in 1..RowCount(d) |-> Append(d.rows[r], gov(r))]]

(***************************************************************************)
(* Region filter (FilterSelection).  The notebook aggregates the whole     *)
(* table; the dashboard's region multiselect is described by the           *)
(* specification only: a selection keeps the rows whose derived region is  *)
(* selected, and no selection control at all (NoFilter) keeps every row.   *)
(***************************************************************************)
NoFilter == [on |-> FALSE, regions |-> {}]

Selection(R) == [on |-> TRUE, regions |-> R]

FilterRows(d, f) ==
    IF ~f.on THEN d
    ELSE [d EXCEPT !.rows =
            SelectSeq(d.rows,
                      LAMBDA row : Extract(row[ColIndex(d, RefArea)]) \in f.regions)]

(***************************************************************************)
(* groupby("Governorate")[c].mean().reset_index()                          *)
(***************************************************************************)
\* faulty variant: dropna=False, the missing key makes a group of its own
GroupKeysKeepNaN(d) ==
    {Cell(d, r, Governorate) : r \in 1..RowCount(d)}

\* group keys: the distinct non-missing values (dropna), sorted (sort=True)
GroupKeys(d) ==
    {Cell(d, r, Governorate) : r \in 1..RowCount(d)} \ {NaNStr}

RECURSIVE SortStrings(_)
SortStrings(S) ==
    IF S = {} THEN <<>>
    ELSE LET m == CHOOSE x \in S : \A y \in S \ {x} : StrLess(x, y)
         IN  <<m>> \o SortStrings(S \ {m})

\* faulty variant: the sum of the whole column, whatever the group
GroupSumAll(d, c, k, n) == SumUpTo(d, c, n)

RECURSIVE GroupSum(_, _, _, _)
GroupSum(d, c, k, n) ==
    IF n = 0 THEN 0
    ELSE GroupSum(d, c, k, n - 1)
         + (IF Cell(d, n, Governorate) = k THEN Cell(d, n, c) ELSE 0)

RECURSIVE GroupSize(_, _, _)
GroupSize(d, k, n) ==
    IF n = 0 THEN 0
    ELSE GroupSize(d, k, n - 1)
         + (IF Cell(d, n, Governorate) = k THEN 1 ELSE 0)

groupby_mean(d, c) ==
    LET keys == SortStrings(GroupKeys(d)) IN
    [i \in 1..Len(keys) |->
        [Governorate |-> keys[i],
         value |-> FDiv(GroupSum(d, c, keys[i], RowCount(d)),
                        GroupSize(d, keys[i], RowCount(d)))]]

(***************************************************************************)
(* DataFrame.sort_values(col, ascending=...) with the default              *)
(* kind='quicksort': the rows ordered by the key, NaN keys last in their   *)
(* original order.  The sort is not stable, so the order of rows with      *)
(* equal keys is whatever the numpy build produces: every order is a       *)
(* possible result.  keys[i] is the key of row i; the result is the set of *)
(* possible row orders p (row p[1] first).                                 *)
(***************************************************************************)
Perms(n) ==
    {p \in [1..n -> 1..n] : \A i, j \in 1..n : i # j => p[i] # p[j]}

\* faulty variant: the rows in any order, no sort at all
sort_valuesUnsorted(keys, ascending) == Perms(Len(keys))

\* faulty variant: the ascending flag inverted
sort_valuesFlipped(keys, ascending) ==
    {p \in Perms(Len(keys)) :
        \A i, j \in 1..Len(keys) :
            i < j =>
              LET a == keys[p[i]]
                  b == keys[p[j]]
              IN  IF IsNaN(a) THEN IsNaN(b) /\ p[i] < p[j]
                  ELSE IF IsNaN(b) THEN TRUE
                  ELSE IF ascending THEN FLeq(b, a) ELSE FLeq(a, b)}

\* faulty variant: the rows are left in the order they were built in
sort_valuesAsGiven(keys, ascending) == {[i \in 1..Len(keys) |-> i]}

sort_values(keys, ascending) ==
    {p \in Perms(Len(keys)) :
        \A i, j \in 1..Len(keys) :
            i < j =>
              LET a == keys[p[i]]
                  b == keys[p[j]]
              IN  IF IsNaN(a) THEN IsNaN(b) /\ p[i] < p[j]
                  ELSE IF IsNaN(b) THEN TRUE
                  ELSE IF ascending THEN FLeq(a, b) ELSE FLeq(b, a)}

\* faulty variant: the sorted frame is not assigned back
ReorderDiscarded(rows, p) == rows

Reorder(rows, p) == [i \in 1..Len(rows) |-> rows[p[i]]]

\* faulty variant: the order of equal keys changes from one call to the next
sort_valuesUnrepeatable(keys, ascending, memo) == sort_values(keys, ascending)

\* sort_values called again: numpy's sort draws nothing at random, so the
\* order it has produced for a key sequence (memo holds these, as
\* <<keys, ascending, order>>) is the order it produces for it again.
sort_valuesRepeatable(keys, ascending, memo) ==
    LET seen == {m \in memo : m[1] = keys /\ m[2] = ascending} IN
    IF seen = {} THEN sort_values(keys, ascending) ELSE {m[3] : m \in seen}

\* The operation of the specification: per-region mean of column c over
\* the rows selected by f, in every order sort_values can return.
aggregateByRegion(d, f, c) ==
    LET g == groupby_mean(FilterRows(d, f), c)
    IN  {Reorder(g, p) :
            p \in sort_values([i \in 1..Len(g) |-> g[i].value], FALSE)}

\* faulty variant: the region selection is not applied
aggregateTransportSumsUnfiltered(d, f) ==
    LET v    == WithGovernorate(d)
        keys == SortStrings(GroupKeys(v))
    IN  [i \in 1..Len(keys) |->
            [Governorate |-> keys[i],
             sums |-> [j \in 1..Len(transport_columns) |->
                          GroupSum(v, transport_columns[j][2], keys[i],
                                   RowCount(v))]]]

\* The operation of the specification (the notebook sums the three columns
\* over the whole table only): for each region of the rows selected by f,
\* the sum of each transport-mode column over that region's rows, as
\* groupby("Governorate")[columns].sum() gives them; sums[j] belongs to
\* transport_columns[j].
aggregateTransportSums(d, f) ==
    LET v    == FilterRows(WithGovernorate(d), f)
        keys == SortStrings(GroupKeys(v))
    IN  [i \in 1..Len(keys) |->
            [Governorate |-> keys[i],
             sums |-> [j \in 1..Len(transport_columns) |->
                          GroupSum(v, transport_columns[j][2], keys[i],
                                   RowCount(v))]]]

(***************************************************************************)
(* Service tables of Visual 3 and Visual 4.                                *)
(***************************************************************************)
\* (count / total) * 100
PercentageTable ==
    [c \in 0..MaxCount |-> [t \in 0..MaxCount |-> FMulInt(FDiv(c, t), 100)]]

\* faulty variant: integer percentage, (100 * count) // total
PercentageFloored(count, total) ==
    IF total = 0 THEN NaN ELSE DivideExact((100 * count) \div total, 1)

\* faulty variant: (total / count) * 100
PercentageSwapped(count, total) == PercentageTable[total][count]

Percentage(count, total) == PercentageTable[count][total]

\* the mapping entries whose column passes "if col in df.columns"
PresentServices(d, mapping) ==
    SelectSeq(mapping, LAMBDA e : HasCol(d, e[2]))

\* bad_count / total_areas raises ZeroDivisionError when both are Python
\* ints (the sum of an empty object column is the int 0); with a numpy
\* int64 sum, 0 / 0 is NaN and only warns.
DivisionRaises(d, mapping) ==
    /\ PresentServices(d, mapping) # <<>>
    /\ RowCount(d) = 0
    /\ d.dtype = "object"

infrastructure_problems(d) ==
    LET present == PresentServices(d, infrastructure_mapping) IN
    [i \in 1..Len(present) |->
        [Service          |-> present[i][1],
         Problem_Severity |-> Percentage(ColSum(d, present[i][2]), RowCount(d)),
         Areas_Affected   |-> ColSum(d, present[i][2])]]

coverage_data(d) ==
    LET present == PresentServices(d, basic_services) IN
    [i \in 1..Len(present) |->
        [Service             |-> present[i][1],
         Coverage_Percentage |-> Percentage(ColSum(d, present[i][2]), RowCount(d)),
         Areas_Covered       |-> ColSum(d, present[i][2]),
         Areas_Missing       |-> RowCount(d) - ColSum(d, present[i][2])]]

\* faulty variant: the 'Buses' and 'Taxis' keys sum each other's column
transport_sumsCrossed(d) ==
    SelectSeq([i \in 1..Len(transport_columns) |->
                  [k |-> transport_columns[i][1],
                   v |-> ColSum(d, transport_columns[Len(transport_columns) + 1 - i][2])]],
              LAMBDA e : e.v > 0)

\* faulty variant: the categories with sum 0 are kept
transport_sumsUnfiltered(d) ==
    [i \in 1..Len(transport_columns) |->
        [k |-> transport_columns[i][1],
         v |-> ColSum(d, transport_columns[i][2])]]

\* transport_modes after the "v > 0" comprehension
transport_sums(d) ==
    SelectSeq([i \in 1..Len(transport_columns) |->
                  [k |-> transport_columns[i][1],
                   v |-> ColSum(d, transport_columns[i][2])]],
              LAMBDA e : e.v > 0)

(***************************************************************************)
(* Insight derivation.  The notebook computes no correlation; the          *)
(* operation is taken from the specification: Pearson's r of two aligned   *)
(* per-region series, Undefined for fewer than two regions.  r is kept as  *)
(* its exact parts: with n points, cov = n*Sxy - Sx*Sy, va = n*Sxx - Sx^2, *)
(* vb = n*Syy - Sy^2 and r = cov / sqrt(va * vb).                          *)
(***************************************************************************)
RECURSIVE SumProd(_, _, _)
SumProd(a, b, n) ==
    IF n = 0 THEN 0 ELSE SumProd(a, b, n - 1) + a[n] * b[n]

Ones(n) == [i \in 1..n |-> 1]

NotComputed == [kind |-> "none", cov |-> 0, va |-> 0, vb |-> 0]
Undefined   == [kind |-> "Undefined", cov |-> 0, va |-> 0, vb |-> 0]

\* faulty variant: the guard lets a single point through
correlationOnePoint(a, b) ==
    LET n  == Len(a)
        sx == SumProd(a, Ones(n), n)
        sy == SumProd(b, Ones(n), n)
    IN  IF n < 1 THEN Undefined
        ELSE [kind |-> "r",
              cov  |-> n * SumProd(a, b, n) - sx * sy,
              va   |-> n * SumProd(a, a, n) - sx * sx,
              vb   |-> n * SumProd(b, b, n) - sy * sy]

\* faulty variant: the covariance normalised by the first series only (the
\* regression slope instead of Pearson's r)
correlationBySlope(a, b) ==
    LET n  == Len(a)
        sx == SumProd(a, Ones(n), n)
        sy == SumProd(b, Ones(n), n)
    IN  IF n < 2 THEN Undefined
        ELSE [kind |-> "r",
              cov  |-> n * SumProd(a, b, n) - sx * sy,
              va   |-> n * SumProd(a, a, n) - sx * sx,
              vb   |-> n * SumProd(a, a, n) - sx * sx]

correlation(a, b) ==
    LET n  == Len(a)
        sx == SumProd(a, Ones(n), n)
        sy == SumProd(b, Ones(n), n)
    IN  IF n < 2 THEN Undefined
        ELSE [kind |-> "r",
              cov  |-> n * SumProd(a, b, n) - sx * sy,
              va   |-> n * SumProd(a, a, n) - sx * sx,
              vb   |-> n * SumProd(b, b, n) - sy * sy]

RECURSIVE GCD(_, _)
GCD(a, b) == IF b = 0 THEN a ELSE GCD(b, a % b)

\* The value of a correlation result: Undefined, or the number r given by
\* its sign and r^2 = cov^2 / (va * vb) in lowest terms.  When one series is
\* constant r is 0/0, which is not a number.
Coefficient(c) ==
    IF c.kind # "r"
    THEN [kind |-> c.kind, sign |-> 0, num |-> 0, den |-> 1]
    ELSE IF c.va * c.vb = 0
    THEN [kind |-> "nan", sign |-> 0, num |-> 0, den |-> 1]
    ELSE LET n == c.cov * c.cov
             d == c.va * c.vb
             g == GCD(n, d)
         IN  [kind |-> "r",
              sign |-> IF c.cov > 0 THEN 1 ELSE IF c.cov < 0 THEN -1 ELSE 0,
              num  |-> n \div g,
              den  |-> d \div g]

\* r > 3/10 and r < -3/10, decided on r^2 = num / den and the sign of r;
\* every comparison with a value that is not a number is false.
AboveThreshold(v) == v.kind = "r" /\ v.sign = 1  /\ 100 * v.num > 9 * v.den
BelowThreshold(v) == v.kind = "r" /\ v.sign = -1 /\ 100 * v.num > 9 * v.den

\* faulty variant: the thresholds themselves count as positive / negative
correlationLabelInclusive(c) ==
    LET v == Coefficient(c) IN
    IF v.kind \notin {"r", "nan"} THEN "none"
    ELSE IF v.kind = "r" /\ v.sign = 1 /\ 100 * v.num >= 9 * v.den THEN "positive"
    ELSE IF v.kind = "r" /\ v.sign = -1 /\ 100 * v.num >= 9 * v.den THEN "negative"
    ELSE "weak"

\* qualitative label of a computed coefficient; an Undefined correlation
\* has no label
correlationLabel(c) ==
    LET v == Coefficient(c) IN
    IF v.kind \notin {"r", "nan"} THEN "none"
    ELSE IF AboveThreshold(v) THEN "positive"
    ELSE IF BelowThreshold(v) THEN "negative"
    ELSE "weak"

(***************************************************************************)
(* Callouts.  The notebook draws the charts only; the best / worst region  *)
(* and the dominant category are taken from the specification: the first   *)
(* and last entry of the sorted aggregate, and the key of the largest of   *)
(* the category sums (the first such key when several are largest).        *)
(***************************************************************************)
NoEntry == [Governorate |-> NaNStr, value |-> NaN]

best_entry(agg) == IF agg = <<>> THEN NoEntry ELSE agg[1]

\* faulty variant: the head of the list taken for the worst region too
worst_entryHead(agg) == IF agg = <<>> THEN NoEntry ELSE agg[1]

worst_entry(agg) == IF agg = <<>> THEN NoEntry ELSE agg[Len(agg)]

\* faulty variant: the first key, whatever its sum
dominant_categoryFirstKey(modes) ==
    IF modes = <<>> THEN "none" ELSE modes[1].k

dominant_category(modes) ==
    IF modes = <<>> THEN "none"
    ELSE LET i == CHOOSE j \in 1..Len(modes) :
                     /\ \A q \in 1..Len(modes) : modes[q].v <= modes[j].v
                     /\ \A q \in 1..(j - 1) : modes[q].v < modes[j].v
         IN  modes[i].k

(***************************************************************************)
(* State: the CSV file, the notebook's globals and the cell to run next,   *)
(* the callouts derived from the aggregates, the inputs and results of the *)
(* correlation, the record of repeated aggregate calls, and the session   *)
(* of the counter app.                                                     *)
(***************************************************************************)
VARIABLES
    file,             \* the table in '/public transportation.csv', if any
    regionFilter,     \* the FilterSelection
    pc,               \* the next cell
    df,               \* the global data frame
    transport_modes,  \* Visual 1
    main_roads,       \* Visual 2
    problem_df,       \* Visual 3
    coverage_df,      \* Visual 4
    err,              \* outcome of each cell
    reads,            \* how many times the file has been read
    best_region,      \* callout: best entry of the sorted aggregate
    worst_region,     \* callout: worst entry of the sorted aggregate
    dominant,         \* callout: dominant transport category
    region_sums,      \* per-region sums of the transport-mode columns
    seriesA,          \* first per-region series handed to correlation
    seriesB,          \* second per-region series, aligned with the first
    corr,             \* result of correlation(seriesA, seriesB)
    corrSwapped,      \* result of correlation(seriesB, seriesA)
    label,            \* qualitative label of corr
    firstFilter,      \* region filter of the first aggregate call
    firstResult,      \* what that call returned
    sortMemo,         \* orders sort_values has produced, by key sequence
    calls,            \* number of aggregate calls made
    session_state,    \* st.session_state of the counter app
    increment,        \* value of the "Increment value" slider
    written,          \* the counts the last script run wrote
    event,            \* what caused the last script run
    runs              \* script runs so far

insight == <<seriesA, seriesB, corr, corrSwapped, label>>

callouts == <<best_region, worst_region, dominant, region_sums>>

rerun == <<firstFilter, firstResult, sortMemo, calls>>

notebook == <<file, regionFilter, pc, df, transport_modes, main_roads,
              problem_df, coverage_df, err, reads>>

counter == <<session_state, increment, written, event, runs>>

vars == <<notebook, callouts, insight, rerun, counter>>

Cells == {"load", "visual1", "visual2", "reload", "strip", "visual3", "visual4"}

(***************************************************************************)
(* Bounded inputs.                                                         *)
(***************************************************************************)
RegionA == <<"A">>
RegionB == <<"B">>
RegionC == <<"C">>
Regions == {RegionA, RegionB, RegionC}

\* compound identifiers: "a/A", "/B", "a/a/C", no separator, nothing after it
RefAreas ==
    { <<"a", "/", "A">>, <<"/", "B">>, <<"a", "/", "a", "/", "C">>,
      <<"a">>, <<"a", "/">> }

FilterChoices ==
    {NoFilter, Selection({}), Selection({RegionA}),
     Selection({RegionB, RegionC}), Selection(Regions)}

SeqsUpTo(S, n) == UNION {[1..k -> S] : k \in 0..n}

\* Region data sets: the identifier and the "good" indicator vary; the other
\* indicators follow from them.
RegionColumns == <<MainGood, RefArea, MainBad, Vans, Taxis, Buses>>

RegionRow(ra, g) == <<g, ra, 1 - g, 0, g, 1 - g>>

RegionRows == {RegionRow(ra, g) : ra \in RefAreas, g \in {0, 1}}

\* Scenario 1 of the specification: A has rows [1,0], B has rows [1,1].
Scenario1 ==
    [columns |-> RegionColumns,
     rows |-> << RegionRow(<<"a", "/", "A">>, 1), RegionRow(<<"a", "/", "A">>, 0),
                 RegionRow(<<"/", "B">>, 1),      RegionRow(<<"/", "B">>, 1) >>,
     exists |-> TRUE]

\* no file at '/public transportation.csv'
MissingFile == [columns |-> <<>>, rows |-> <<>>, exists |-> FALSE]

RegionFiles ==
    {[columns |-> RegionColumns, rows |-> rs, exists |-> TRUE] :
        rs \in SeqsUpTo(RegionRows, MaxRows)}
    \cup {Scenario1, MissingFile}

\* the bad-main-roads column spelt in lower case in the file's header
MainBadLower == <<"state of the main roads - bad">>

\* Service data sets: any subset of three mapped indicator columns is in the
\* schema, one schema carries a column name with a trailing blank and one a
\* column name in lower case.  A record's main road is good, acceptable or
\* bad (one-hot, as in the data), and its electricity is bad unless the road
\* is good.
ServiceSchemas ==
    { <<>>, <<MainBad>>, <<MainGood>>, <<ElecBad>>,
      <<MainBad, MainGood>>, <<MainBad, ElecBad>>, <<MainGood, ElecBad>>,
      <<MainBad, MainGood, ElecBad>>,
      <<MainBad \o <<" ">>, MainGood>>,
      <<MainBadLower, ElecBad>>,
      <<MainBad, SecondBad, MainGood, ElecGood>> }

ServiceRefAreas == { <<"a", "/", "A">>, <<"/", "B">> }

RoadStates == {"good", "acceptable", "bad"}

ServiceValue(col, q) ==
    IF Strip(col) \in {MainBad, MainBadLower} THEN (IF q = "bad" THEN 1 ELSE 0)
    ELSE IF Strip(col) \in {MainGood, SecondBad} THEN (IF q = "good" THEN 1 ELSE 0)
    ELSE (IF q = "good" THEN 0 ELSE 1)

ServiceRows(schema) ==
    {<<ra>> \o [i \in 1..Len(schema) |-> ServiceValue(schema[i], q)] :
        ra \in ServiceRefAreas, q \in RoadStates}

ServiceFiles ==
    UNION {{[columns |-> <<RefArea>> \o schema, rows |-> rs, exists |-> TRUE] :
                rs \in SeqsUpTo(ServiceRows(schema), MaxSvcRows)} :
           schema \in ServiceSchemas}

\* nothing derived yet
NoCallouts ==
    /\ best_region = NoEntry
    /\ worst_region = NoEntry
    /\ dominant = "none"
    /\ region_sums = <<>>

NoInsight ==
    /\ seriesA = <<>>
    /\ seriesB = <<>>
    /\ corr = NotComputed
    /\ corrSwapped = NotComputed
    /\ label = "none"

NoRerun ==
    /\ firstFilter = NoFilter
    /\ firstResult = <<>>
    /\ sortMemo = {}
    /\ calls = 0

\* st.slider("Increment value", 1, 10, 1): lowest, highest and first value
SliderMin == 1
SliderMax == 10
SliderDefault == 1

\* no browser session of the counter app
NoCounter ==
    /\ session_state = <<>>
    /\ increment = SliderDefault
    /\ written = <<>>
    /\ event = "none"
    /\ runs = 0

InitWith(f) ==
    /\ file = f
    /\ regionFilter = NoFilter
    /\ pc = "select"
    /\ df = Unbound
    /\ transport_modes = <<>>
    /\ main_roads = <<>>
    /\ problem_df = <<>>
    /\ coverage_df = <<>>
    /\ err = [c \in Cells |-> "notrun"]
    /\ reads = 0
    /\ NoCallouts
    /\ NoInsight
    /\ NoRerun
    /\ NoCounter

Init == \E f \in RegionFiles : InitWith(f)

InitService == \E f \in ServiceFiles : InitWith(f)

(***************************************************************************)
(* Cells.  A cell that raises leaves its targets as they were, and the     *)
(* next cell can still be run.                                             *)
(***************************************************************************)
\* the user's region selection (or none) for this run
SelectRegions ==
    /\ pc = "select"
    /\ \E f \in FilterChoices : regionFilter' = f
    /\ pc' = "load"
    /\ UNCHANGED <<file, df, transport_modes, main_roads, problem_df,
                   coverage_df, err, reads, callouts, insight, rerun>>
    /\ UNCHANGED counter

\* df = pd.read_csv('/public transportation.csv'); there is no try / except
\* around it
LoadCsv ==
    /\ pc = "load"
    /\ pc' = "visual1"
    /\ IF file.exists
       THEN /\ df' = read_csv(file)
            /\ reads' = reads + 1
            /\ err' = [err EXCEPT !["load"] = "ok"]
       ELSE /\ err' = [err EXCEPT !["load"] = "FileNotFoundError"]
            /\ UNCHANGED <<df, reads>>
    /\ UNCHANGED <<file, regionFilter, transport_modes, main_roads,
                   problem_df, coverage_df, callouts, insight, rerun>>
    /\ UNCHANGED counter

\* Visual 1: sums of the three transport-mode columns, zero sums dropped
Visual1 ==
    /\ pc = "visual1"
    /\ pc' = "visual2"
    /\ IF df = Unbound
       THEN /\ err' = [err EXCEPT !["visual1"] = "NameError"]
            /\ UNCHANGED transport_modes
       ELSE IF \E i \in 1..Len(transport_columns) : ~HasCol(df, transport_columns[i][2])
       THEN /\ err' = [err EXCEPT !["visual1"] = "KeyError"]
            /\ UNCHANGED transport_modes
       ELSE /\ transport_modes' = transport_sums(FilterRows(df, regionFilter))
            /\ err' = [err EXCEPT !["visual1"] = "ok"]
    /\ UNCHANGED <<file, regionFilter, df, main_roads, problem_df,
                   coverage_df, reads, callouts, insight, rerun>>
    /\ UNCHANGED counter

\* Visual 2: Governorate column, mean of the good-main-roads indicator per
\* governorate, sorted descending.  On a file without data rows the
\* indicator column has dtype object, and mean() of it gives an empty result
\* or raises TypeError, depending on the pandas release.
Visual2 ==
    /\ pc = "visual2"
    /\ pc' = "reload"
    /\ IF df = Unbound
       THEN /\ err' = [err EXCEPT !["visual2"] = "NameError"]
            /\ UNCHANGED <<df, main_roads>>
       ELSE IF ~HasCol(df, RefArea)
       THEN /\ err' = [err EXCEPT !["visual2"] = "KeyError"]
            /\ UNCHANGED <<df, main_roads>>
       ELSE /\ df' = WithGovernorate(df)
            /\ IF ~HasCol(df, MainGood)
               THEN /\ err' = [err EXCEPT !["visual2"] = "KeyError"]
                    /\ UNCHANGED main_roads
               ELSE \/ /\ \E r \in aggregateByRegion(WithGovernorate(df),
                                                       regionFilter, MainGood) :
                             main_roads' = r
                       /\ err' = [err EXCEPT !["visual2"] = "ok"]
                    \/ /\ df.dtype = "object"
                       /\ err' = [err EXCEPT !["visual2"] = "TypeError"]
                       /\ UNCHANGED main_roads
    /\ UNCHANGED <<file, regionFilter, transport_modes, problem_df,
                   coverage_df, reads, callouts, insight, rerun>>
    /\ UNCHANGED counter

\* df = pd.read_csv("/public transportation.csv") once more: the file is
\* read again, nothing is kept from the first read
ReloadCsv ==
    /\ pc = "reload"
    /\ pc' = "strip"
    /\ IF file.exists
       THEN /\ df' = read_csv(file)
            /\ reads' = reads + 1
            /\ err' = [err EXCEPT !["reload"] = "ok"]
       ELSE /\ err' = [err EXCEPT !["reload"] = "FileNotFoundError"]
            /\ UNCHANGED <<df, reads>>
    /\ UNCHANGED <<file, regionFilter, transport_modes, main_roads,
                   problem_df, coverage_df, callouts, insight, rerun>>
    /\ UNCHANGED counter

\* df.columns = df.columns.str.strip()
StripColumns ==
    /\ pc = "strip"
    /\ pc' = "visual3"
    /\ IF df = Unbound
       THEN /\ err' = [err EXCEPT !["strip"] = "NameError"]
            /\ UNCHANGED df
       ELSE /\ df' = StripColumnNames(df)
            /\ err' = [err EXCEPT !["strip"] = "ok"]
    /\ UNCHANGED <<file, regionFilter, transport_modes, main_roads,
                   problem_df, coverage_df, reads, callouts, insight, rerun>>
    /\ UNCHANGED counter

\* Visual 3: severity of each mapped service, sorted ascending.  An empty
\* infrastructure_problems list makes a frame without columns, and
\* sort_values('Problem_Severity') raises KeyError on it.
Visual3 ==
    /\ pc = "visual3"
    /\ pc' = "visual4"
    /\ LET view == FilterRows(df, regionFilter)
           rows == infrastructure_problems(view)
       IN  IF df = Unbound
           THEN /\ err' = [err EXCEPT !["visual3"] = "NameError"]
                /\ UNCHANGED problem_df
           ELSE IF DivisionRaises(view, infrastructure_mapping)
           THEN /\ err' = [err EXCEPT !["visual3"] = "ZeroDivisionError"]
                /\ UNCHANGED problem_df
           ELSE IF rows = <<>>
           THEN /\ err' = [err EXCEPT !["visual3"] = "KeyError"]
                /\ problem_df' = <<>>
           ELSE /\ \E p \in sort_values([i \in 1..Len(rows) |->
                                               rows[i].Problem_Severity], TRUE) :
                      problem_df' = Reorder(rows, p)
                /\ err' = [err EXCEPT !["visual3"] = "ok"]
    /\ UNCHANGED <<file, regionFilter, df, transport_modes, main_roads,
                   coverage_df, reads, callouts, insight, rerun>>
    /\ UNCHANGED counter

\* Visual 4: coverage of each basic service, sorted descending
Visual4 ==
    /\ pc = "visual4"
    /\ pc' = "done"
    /\ LET view == FilterRows(df, regionFilter)
           rows == coverage_data(view)
       IN  IF df = Unbound
           THEN /\ err' = [err EXCEPT !["visual4"] = "NameError"]
                /\ UNCHANGED coverage_df
           ELSE IF DivisionRaises(view, basic_services)
           THEN /\ err' = [err EXCEPT !["visual4"] = "ZeroDivisionError"]
                /\ UNCHANGED coverage_df
           ELSE IF rows = <<>>
           THEN /\ err' = [err EXCEPT !["visual4"] = "KeyError"]
                /\ coverage_df' = <<>>
           ELSE /\ \E p \in sort_values([i \in 1..Len(rows) |->
                                               rows[i].Coverage_Percentage], FALSE) :
                      coverage_df' = Reorder(rows, p)
                /\ err' = [err EXCEPT !["visual4"] = "ok"]
    /\ UNCHANGED <<file, regionFilter, df, transport_modes, main_roads,
                   problem_df, reads, callouts, insight, rerun>>
    /\ UNCHANGED counter

\* the callouts, from the aggregates as the cells left them
Insights ==
    /\ pc = "done"
    /\ pc' = "reported"
    /\ best_region' = best_entry(main_roads)
    /\ worst_region' = worst_entry(main_roads)
    /\ dominant' = dominant_category(transport_modes)
    /\ region_sums' =
          IF /\ df # Unbound
             /\ HasCol(df, RefArea)
             /\ \A i \in 1..Len(transport_columns) :
                   HasCol(df, transport_columns[i][2])
          THEN aggregateTransportSums(df, regionFilter)
          ELSE <<>>
    /\ UNCHANGED <<file, regionFilter, df, transport_modes, main_roads,
                   problem_df, coverage_df, err, reads, insight, rerun>>
    /\ UNCHANGED counter

Next ==
    \/ SelectRegions
    \/ LoadCsv
    \/ Visual1
    \/ Visual2
    \/ ReloadCsv
    \/ StripColumns
    \/ Visual3
    \/ Visual4
    \/ Insights

Spec == Init /\ [][Next]_vars

SpecService == InitService /\ [][Next]_vars

(***************************************************************************)
(* The correlation and its label applied to every pair of aligned bounded  *)
(* series, to Scenario 4 of the specification (road quality 0.2, 0.8 in    *)
(* tenths against taxi sums 10, 90) and to two pairs whose r is exactly    *)
(* 3/10 and -3/10.                                                         *)
(***************************************************************************)
EmptyFile == [columns |-> <<RefArea>>, rows |-> <<>>, exists |-> TRUE]

Scenario4 == << <<2, 8>>, <<10, 90>> >>

ThresholdPairs ==
    { << <<0, 1, 3, 4>>, <<0, 3, 4, 1>> >>,
      << <<0, 1, 3, 4>>, <<4, 1, 0, 3>> >> }

SeriesPairs ==
    UNION {[1..2 -> [1..n -> 0..MaxValue]] : n \in 0..MaxSeries}
    \cup {Scenario4} \cup ThresholdPairs

InitInsight ==
    /\ file = EmptyFile
    /\ regionFilter = NoFilter
    /\ pc = "insight"
    /\ df = Unbound
    /\ transport_modes = <<>>
    /\ main_roads = <<>>
    /\ problem_df = <<>>
    /\ coverage_df = <<>>
    /\ err = [c \in Cells |-> "notrun"]
    /\ reads = 0
    /\ NoCallouts
    /\ \E sp \in SeriesPairs :
          /\ seriesA = sp[1]
          /\ seriesB = sp[2]
    /\ corr = NotComputed
    /\ corrSwapped = NotComputed
    /\ label = "none"
    /\ NoRerun
    /\ NoCounter

Correlate ==
    /\ pc = "insight"
    /\ corr = NotComputed
    /\ corr' = correlation(seriesA, seriesB)
    /\ UNCHANGED <<notebook, callouts, seriesA, seriesB, corrSwapped, label, rerun>>
    /\ UNCHANGED counter

\* the same call with the two series exchanged
CorrelateSwapped ==
    /\ pc = "insight"
    /\ corrSwapped = NotComputed
    /\ corrSwapped' = correlation(seriesB, seriesA)
    /\ UNCHANGED <<notebook, callouts, seriesA, seriesB, corr, label, rerun>>
    /\ UNCHANGED counter

Label ==
    /\ pc = "insight"
    /\ corr # NotComputed
    /\ label = "none"
    /\ label' = correlationLabel(corr)
    /\ label' # "none"
    /\ UNCHANGED <<notebook, callouts, seriesA, seriesB, corr, corrSwapped, rerun>>
    /\ UNCHANGED counter

NextInsight ==
    \/ Correlate
    \/ CorrelateSwapped
    \/ Label

SpecInsight == InitInsight /\ [][NextInsight]_vars

(***************************************************************************)
(* Repeated aggregate calls on one loaded data set: each change of the     *)
(* region selection runs the per-governorate aggregate of the Visual 2     *)
(* cell again, on the frame as the earlier calls left it.                  *)
(***************************************************************************)
\* two regions and one identifier without region
RerunRows ==
    {RegionRow(ra, g) : ra \in {<<"a", "/", "A">>, <<"/", "B">>, <<"a">>},
                        g \in {0, 1}}

RerunFiles ==
    {[columns |-> RegionColumns, rows |-> rs, exists |-> TRUE] :
        rs \in SeqsUpTo(RerunRows, MaxRerunRows) \ {<<>>}}

InitRerun ==
    /\ file \in RerunFiles
    /\ regionFilter = NoFilter
    /\ pc = "aggregate"
    /\ df = read_csv(file)
    /\ transport_modes = <<>>
    /\ main_roads = <<>>
    /\ problem_df = <<>>
    /\ coverage_df = <<>>
    /\ err = [c \in Cells |-> IF c = "load" THEN "ok" ELSE "notrun"]
    /\ reads = 1
    /\ NoCallouts
    /\ NoInsight
    /\ NoRerun
    /\ NoCounter

Reaggregate ==
    /\ pc = "aggregate"
    /\ calls < MaxCalls
    /\ \E f \in FilterChoices :
          LET d    == WithGovernorate(df)
              g    == groupby_mean(FilterRows(d, f), MainGood)
              keys == [i \in 1..Len(g) |-> g[i].value]
          IN  \E p \in sort_valuesRepeatable(keys, FALSE, sortMemo) :
                /\ regionFilter' = f
                /\ df' = d
                /\ main_roads' = Reorder(g, p)
                /\ sortMemo' = sortMemo \cup {<<keys, FALSE, p>>}
                /\ firstFilter' = IF calls = 0 THEN f ELSE firstFilter
                /\ firstResult' = IF calls = 0 THEN Reorder(g, p) ELSE firstResult
    /\ calls' = calls + 1
    /\ UNCHANGED <<file, pc, transport_modes, problem_df, coverage_df, err,
                   reads, callouts, insight>>
    /\ UNCHANGED counter

NextRerun == Reaggregate

SpecRerun == InitRerun /\ [][NextRerun]_vars

(***************************************************************************)
(* The counter app.  Streamlit runs the script from top to bottom on every *)
(* rerun.  st.session_state lasts as long as the browser session, a button *)
(* returns True only in the rerun that its click caused, and the slider    *)
(* gives the value the user left it at.  Two clicks made while a run is    *)
(* under way are served by one rerun in which both buttons return True.    *)
(***************************************************************************)
\* st.session_state without entries
EmptySession == [k \in {} |-> 0]

\* faulty variant: the count is set to 0 on every run
InitializeCounterAlways(ss) == [k \in {"count"} |-> 0]

\* if "count" not in st.session_state: st.session_state.count = 0
InitializeCounter(ss) ==
    IF "count" \in DOMAIN ss THEN ss ELSE [k \in {"count"} |-> 0]

\* faulty variant: the first button takes 1 away
ClickMeDown(ss, clicked) ==
    IF clicked THEN [ss EXCEPT !["count"] = @ - 1] ELSE ss

\* if st.button("Click Me"): st.session_state.count += 1
ClickMe(ss, clicked) ==
    IF clicked THEN [ss EXCEPT !["count"] = @ + 1] ELSE ss

\* faulty variant: the second button adds 1 whatever the slider says
IncrementByOne(ss, clicked, inc) ==
    IF clicked THEN [ss EXCEPT !["count"] = @ + 1] ELSE ss

\* faulty variant: the slider value is added without a click
IncrementByUnguarded(ss, clicked, inc) ==
    [ss EXCEPT !["count"] = @ + inc]

\* if st.button(f"Increment by {increment}"):
\*     st.session_state.count += increment
IncrementBy(ss, clicked, inc) ==
    IF clicked THEN [ss EXCEPT !["count"] = @ + inc] ELSE ss

\* faulty variant: both counts are written after the second button
writeAtEnd(current, updated) == <<updated["count"], updated["count"]>>

\* st.write(f"Current count: ...") after the first button and
\* st.write(f"Updated count: ...") after the second one
write(current, updated) == <<current["count"], updated["count"]>>

\* one run of the script: the first button returned clickMe, the slider
\* value, the second button returned clickInc
Script(clickMe, value, clickInc) ==
    LET initialized == InitializeCounter(session_state)
        current     == ClickMe(initialized, clickMe)
        updated     == IncrementBy(current, clickInc, value)
    IN  /\ session_state' = updated
        /\ increment' = value
        /\ written' = write(current, updated)
        /\ runs' = runs + 1

\* the page of the last run is on the screen
PageShown == written # <<>>

InitCounter ==
    /\ file = EmptyFile
    /\ regionFilter = NoFilter
    /\ pc = "counter"
    /\ df = Unbound
    /\ transport_modes = <<>>
    /\ main_roads = <<>>
    /\ problem_df = <<>>
    /\ coverage_df = <<>>
    /\ err = [c \in Cells |-> "notrun"]
    /\ reads = 0
    /\ NoCallouts
    /\ NoInsight
    /\ NoRerun
    /\ NoCounter

\* the page is opened, or rerun without any widget having changed
OpenPage ==
    /\ pc = "counter"
    /\ runs < MaxReruns
    /\ Script(FALSE, increment, FALSE)
    /\ event' = "open"
    /\ UNCHANGED <<notebook, callouts, insight, rerun>>

\* a click on "Click Me"
ClickFirst ==
    /\ pc = "counter"
    /\ runs < MaxReruns
    /\ PageShown
    /\ Script(TRUE, increment, FALSE)
    /\ event' = "click me"
    /\ UNCHANGED <<notebook, callouts, insight, rerun>>

\* the slider is moved to another value
MoveSlider ==
    /\ pc = "counter"
    /\ runs < MaxReruns
    /\ PageShown
    /\ \E v \in (SliderMin..SliderMax) \ {increment} : Script(FALSE, v, FALSE)
    /\ event' = "slider"
    /\ UNCHANGED <<notebook, callouts, insight, rerun>>

\* a click on "Increment by N"
ClickSecond ==
    /\ pc = "counter"
    /\ runs < MaxReruns
    /\ PageShown
    /\ Script(FALSE, increment, TRUE)
    /\ event' = "increment"
    /\ UNCHANGED <<notebook, callouts, insight, rerun>>

\* clicks on both buttons served by one rerun
ClickBoth ==
    /\ pc = "counter"
    /\ runs < MaxReruns
    /\ PageShown
    /\ Script(TRUE, increment, TRUE)
    /\ event' = "both"
    /\ UNCHANGED <<notebook, callouts, insight, rerun>>

\* the browser session ends and a new one begins: nothing of
\* st.session_state or of the widgets is carried over
NewSession ==
    /\ pc = "counter"
    /\ PageShown
    /\ session_state' = EmptySession
    /\ increment' = SliderDefault
    /\ written' = <<>>
    /\ event' = "new session"
    /\ UNCHANGED <<runs, notebook, callouts, insight, rerun>>

NextCounter ==
    \/ OpenPage
    \/ ClickFirst
    \/ MoveSlider
    \/ ClickSecond
    \/ ClickBoth
    \/ NewSession

SpecCounter == InitCounter /\ [][NextCounter]_vars

(***************************************************************************)
(* Properties.  They are stated against the file and the selection, not    *)
(* against the notebook's intermediate frames.                             *)
(***************************************************************************)
\* position in the file of the column called c once names are stripped
FileCol(c) == CHOOSE i \in 1..Len(file.columns) : Strip(file.columns[i]) = c

FileHas(c) == \E i \in 1..Len(file.columns) : Strip(file.columns[i]) = c

FileVal(r, c) == file.rows[r][FileCol(c)]

RegionOfRow(r) == Extract(FileVal(r, RefArea))

FileRegions == {RegionOfRow(r) : r \in 1..Len(file.rows)} \ {NaNStr}

\* the records of the filtered subset
Selected ==
    {r \in 1..Len(file.rows) :
        regionFilter.on => RegionOfRow(r) \in regionFilter.regions}

RowsOfRegion(g) == {r \in Selected : RegionOfRow(r) = g}

FirstRow(g) == CHOOSE r \in RowsOfRegion(g) : \A q \in RowsOfRegion(g) : r <= q

RECURSIVE SumOver(_, _)
SumOver(S, c) ==
    IF S = {} THEN 0
    ELSE LET r == CHOOSE x \in S : TRUE
         IN  FileVal(r, c) + SumOver(S \ {r}, c)

OnesCount(c) == Cardinality({r \in Selected : FileVal(r, c) = 1})

Total == Cardinality(Selected)

\* the doubles 1.0, 0.5 and 100.0
One     == [cls |-> "num", m |-> [i \in 1..53 |-> IF i = 53 THEN 1 ELSE 0], e |-> -52]
Half    == [cls |-> "num", m |-> [i \in 1..53 |-> IF i = 53 THEN 1 ELSE 0], e |-> -53]
Hundred == DivideExact(100, 1)

\* x + y of two doubles, rounded to nearest
FAdd(x, y) ==
    IF IsNaN(x) \/ IsNaN(y) THEN NaN
    ELSE LET e0 == MinExp(x, y)
         IN  RoundToDouble(BAdd(Aligned(x, e0), Aligned(y, e0)), e0, FALSE)

\* |x - num/den| <= 2^-40 for a double x below 2^13 (about 1e-12)
Near(x, num, den) ==
    /\ ~IsNaN(x)
    /\ IF x.m = <<>> THEN num = 0
       ELSE /\ x.e <= -40
            /\ LET k   == 0 - x.e
                   a   == BMulSmall(x.m, den)
                   b   == BShl(BFromInt(num), k)
                   tol == BShl(BFromInt(den), k - 40)
               IN  /\ ~BLess(BAdd(b, tol), a)
                   /\ ~BLess(BAdd(a, tol), b)

\* The doubles the claims expect, computed once: a / b and (c / t) * 100,
\* and the fact that they are the exact ratios up to rounding.
ExpectedQuotient ==
    [a \in 0..MaxCount |-> [b \in 0..MaxCount |-> DivideExact(a, b)]]

ExpectedPercent ==
    [c \in 0..MaxCount |->
        [t \in 0..MaxCount |-> FMulInt(DivideExact(c, t), 100)]]

QuotientsAccurate ==
    \A a \in 0..MaxCount, b \in 1..MaxCount :
        Near(ExpectedQuotient[a][b], a, b)

PercentsAccurate ==
    \A c \in 0..MaxCount, t \in 1..MaxCount :
        c <= t => Near(ExpectedPercent[c][t], 100 * c, t)

RegionsIn(rows) == {rows[i].Governorate : i \in 1..Len(rows)}

ServicesIn(rows) == {rows[i].Service : i \in 1..Len(rows)}

\* C1: aggregateByRegion pairs each returned region with the mean of the
\* column over exactly the selected rows of that region; Scenario 1 gives
\* [(B, 1.0), (A, 0.5)].
C1_MeanOfRegionRows ==
    err["visual2"] = "ok" =>
        /\ \A i \in 1..Len(main_roads) :
              LET S == RowsOfRegion(main_roads[i].Governorate)
              IN  /\ S # {}
                  /\ main_roads[i].value =
                        ExpectedQuotient[SumOver(S, MainGood)][Cardinality(S)]
        /\ QuotientsAccurate
        /\ (file = Scenario1 /\ ~regionFilter.on) =>
              main_roads = << [Governorate |-> RegionB, value |-> One],
                              [Governorate |-> RegionA, value |-> Half] >>

C1_Witness ==
    /\ err["visual2"] = "ok"
    /\ file = Scenario1
    /\ ~regionFilter.on
    /\ Len(main_roads) = 2
    /\ main_roads[2].value = Half

\* C2: the regions returned by aggregateByRegion are exactly the selected
\* regions that occur in the data set (all regions of the data set without
\* a selection), each once.
C2_RegionsExactlyOnce ==
    err["visual2"] = "ok" =>
        /\ RegionsIn(main_roads) =
              (IF regionFilter.on
               THEN regionFilter.regions \cap FileRegions
               ELSE FileRegions)
        /\ Cardinality(RegionsIn(main_roads)) = Len(main_roads)

C2_Witness ==
    /\ err["visual2"] = "ok"
    /\ regionFilter.on
    /\ regionFilter.regions # {}
    /\ regionFilter.regions \subseteq FileRegions
    /\ regionFilter.regions # FileRegions
    /\ \E r \in 1..Len(file.rows) : RegionOfRow(r) = NaNStr
    /\ RegionsIn(main_roads) = regionFilter.regions

\* C3: the list returned by aggregateByRegion is non-increasing in value.
C3_NonIncreasing ==
    err["visual2"] = "ok" =>
        \A i \in 1..(Len(main_roads) - 1) :
            FLeq(main_roads[i + 1].value, main_roads[i].value)

C3_Witness ==
    /\ err["visual2"] = "ok"
    /\ \E i \in 1..(Len(main_roads) - 1) :
          /\ FLess(main_roads[i + 1].value, main_roads[i].value)
          /\ StrLess(main_roads[i + 1].Governorate, main_roads[i].Governorate)

C5_CountAndPercentage ==
    /\ err["visual3"] = "ok" =>
          \A i \in 1..Len(infrastructure_mapping) :
              FileHas(infrastructure_mapping[i][2]) =>
                  \E j \in 1..Len(problem_df) :
                      LET n == OnesCount(infrastructure_mapping[i][2]) IN
                      /\ problem_df[j].Service = infrastructure_mapping[i][1]
                      /\ problem_df[j].Areas_Affected = n
                      /\ Total > 0 =>
                            problem_df[j].Problem_Severity
                                = ExpectedPercent[n][Total]
    /\ err["visual4"] = "ok" =>
          \A i \in 1..Len(basic_services) :
              FileHas(basic_services[i][2]) =>
                  \E j \in 1..Len(coverage_df) :
                      LET n == OnesCount(basic_services[i][2]) IN
                      /\ coverage_df[j].Service = basic_services[i][1]
                      /\ coverage_df[j].Areas_Covered = n
                      /\ Total > 0 =>
                            coverage_df[j].Coverage_Percentage
                                = ExpectedPercent[n][Total]
    /\ PercentsAccurate

C5_Witness ==
    /\ err["visual3"] = "ok"
    /\ err["visual4"] = "ok"
    /\ regionFilter.on
    /\ Total < Len(file.rows)
    /\ FileHas(MainBad)
    /\ 0 < OnesCount(MainBad)
    /\ OnesCount(MainBad) < Total
    /\ \E j \in 1..Len(problem_df) :
          problem_df[j].Areas_Affected = OnesCount(MainBad)

\* C6 as claimed (for a non-empty filtered subset): whatever subset of the
\* mapped columns the schema contains, none included, the severity table
\* is computed without an error and holds exactly the services whose
\* column is present.
C6_AbsentColumnsNeverFail ==
    (err["visual3"] # "notrun" /\ Total > 0) =>
        /\ err["visual3"] = "ok"
        /\ ServicesIn(problem_df) =
              {infrastructure_mapping[i][1] :
                  i \in {k \in 1..Len(infrastructure_mapping) :
                            FileHas(infrastructure_mapping[k][2])}}

\* C7 as claimed: when the filtered subset has no record, every aggregate
\* is empty, and no division by the zero count is performed or raised.
C7_EmptySubsetEmptyResults ==
    (pc = "done" /\ Selected = {}) =>
        /\ main_roads = <<>>
        /\ transport_modes = <<>>
        /\ problem_df = <<>>
        /\ coverage_df = <<>>
        /\ err["visual3"] # "ZeroDivisionError"
        /\ err["visual4"] # "ZeroDivisionError"

\* C8 as claimed: an empty region selection on a non-empty data set makes
\* every aggregate empty, without an error.
C8_EmptySelectionEmptyResults ==
    (pc = "done" /\ regionFilter = Selection({}) /\ file.rows # <<>>) =>
        /\ main_roads = <<>>
        /\ transport_modes = <<>>
        /\ problem_df = <<>>
        /\ coverage_df = <<>>
        /\ \A c \in Cells : err[c] = "ok"

\* the severity of Main Roads and the coverage of Good Main Roads
BadnessOf(service) ==
    problem_df[CHOOSE j \in 1..Len(problem_df) :
                  problem_df[j].Service = service].Problem_Severity

CoverageOf(service) ==
    coverage_df[CHOOSE j \in 1..Len(coverage_df) :
                   coverage_df[j].Service = service].Coverage_Percentage

\* every selected record (there is one at least) has exactly one of the
\* good and bad main-road indicators set, and both tables were computed
ExclusiveExhaustive ==
    /\ err["visual3"] = "ok"
    /\ err["visual4"] = "ok"
    /\ FileHas(MainBad)
    /\ FileHas(MainGood)
    /\ Total > 0
    /\ \A r \in Selected : FileVal(r, MainBad) + FileVal(r, MainGood) = 1

\* C9 as claimed: with good and bad mutually exclusive and exhaustive, the
\* severity percentage plus the coverage percentage equals 100.
C9_SumIsExactly100 ==
    ExclusiveExhaustive =>
        FAdd(BadnessOf("Main Roads"), CoverageOf("Good Main Roads")) = Hundred

\* C9 as amended: the sum equals 100 up to the rounding of the two
\* double-precision percentages: it is within 2^-40 of 100.
C9_SumIs100WithinRounding ==
    ExclusiveExhaustive =>
        Near(FAdd(BadnessOf("Main Roads"), CoverageOf("Good Main Roads")), 100, 1)

C9_Witness ==
    /\ ExclusiveExhaustive
    /\ Total = 3
    /\ OnesCount(MainBad) = 1
    /\ FAdd(BadnessOf("Main Roads"), CoverageOf("Good Main Roads")) # Hundred

\* C10: correlation of series with fewer than two points is the Undefined
\* sentinel, never a number.
C10_FewerThanTwoUndefined ==
    (corr.kind # "none" /\ Len(seriesA) < 2) => corr = Undefined

C10_Witness ==
    /\ Len(seriesA) = 1
    /\ corr.kind = "Undefined"

\* the parts of r = cov / sqrt(va * vb) for the two series, and r against
\* the thresholds, without reducing the fraction
RIsNumber == corr.kind = "r" /\ corr.va * corr.vb > 0

RSquaredVersus9Over100 ==
    100 * corr.cov * corr.cov - 9 * corr.va * corr.vb

\* C11: the label is 'positive' exactly when r > 0.3, 'negative' exactly
\* when r < -0.3 and 'weak' for every other computed r, so that r = 0.3 and
\* r = -0.3 are 'weak'; Scenario 4 is labelled 'positive'.
C11_LabelThresholds ==
    label # "none" =>
        /\ label \in {"positive", "negative", "weak"}
        /\ (label = "positive") <=>
              (RIsNumber /\ corr.cov > 0 /\ RSquaredVersus9Over100 > 0)
        /\ (label = "negative") <=>
              (RIsNumber /\ corr.cov < 0 /\ RSquaredVersus9Over100 > 0)
        /\ (RIsNumber /\ RSquaredVersus9Over100 = 0) => label = "weak"
        /\ <<seriesA, seriesB>> = Scenario4 => label = "positive"

C11_Witness ==
    /\ label = "weak"
    /\ RIsNumber
    /\ corr.cov < 0
    /\ RSquaredVersus9Over100 = 0

\* C12: correlation(A, B) and correlation(B, A) are the same value: both
\* Undefined, or the same number r.
C12_CorrelationSymmetric ==
    (corr # NotComputed /\ corrSwapped # NotComputed) =>
        Coefficient(corr) = Coefficient(corrSwapped)

C12_Witness ==
    /\ corr.kind = "r"
    /\ corrSwapped.kind = "r"
    /\ corr.va # corr.vb
    /\ corr.va * corr.vb > 0
    /\ corr.cov < 0
    /\ Coefficient(corr).den > 1

\* C13: the best region is the first and the worst region the last entry
\* of the descending-sorted aggregate; no region of the aggregate has a
\* mean above the best region's or below the worst region's.
C13_BestFirstWorstLast ==
    (pc = "reported" /\ err["visual2"] = "ok" /\ main_roads # <<>>) =>
        /\ best_region = main_roads[1]
        /\ worst_region = main_roads[Len(main_roads)]
        /\ \A i \in 1..Len(main_roads) :
              /\ FLeq(main_roads[i].value, best_region.value)
              /\ FLeq(worst_region.value, main_roads[i].value)

C13_Witness ==
    /\ pc = "reported"
    /\ err["visual2"] = "ok"
    /\ Len(main_roads) = 3
    /\ FLess(worst_region.value, best_region.value)
    /\ StrLess(worst_region.Governorate, best_region.Governorate)

\* the sum of a transport category over the selected records of the file
CategoryColumn(k) ==
    transport_columns[CHOOSE i \in 1..Len(transport_columns) :
                         transport_columns[i][1] = k][2]

CategorySum(k) == SumOver(Selected, CategoryColumn(k))

Categories == {transport_columns[i][1] : i \in 1..Len(transport_columns)}

\* C14: the dominant category is a category of the fixed set (buses, vans,
\* taxis) whose sum no other category of the set exceeds.
C14_DominantIsMaximal ==
    (pc = "reported" /\ err["visual1"] = "ok") =>
        IF \A k \in Categories : CategorySum(k) = 0
        THEN dominant = "none"
        ELSE /\ dominant \in Categories
             /\ \A k \in Categories : CategorySum(k) <= CategorySum(dominant)

C14_Witness ==
    /\ pc = "reported"
    /\ dominant = "Taxis"
    /\ CategorySum("Buses") > 0
    /\ CategorySum("Taxis") > CategorySum("Buses")
    /\ regionFilter.on

\* the characters of s after its final "/" (all of s when it has none)
RECURSIVE LastSegment(_)
LastSegment(s) ==
    IF s = <<>> \/ s[Len(s)] = "/" THEN <<>>
    ELSE Append(LastSegment(SubSeq(s, 1, Len(s) - 1)), s[Len(s)])

HasSeparator(s) == \E i \in 1..Len(s) : s[i] = "/"

\* a record has a region when its identifier has a separator with
\* something after the last one
HasRegion(r) ==
    /\ HasSeparator(FileVal(r, RefArea))
    /\ LastSegment(FileVal(r, RefArea)) # <<>>

RegionMembers(g) ==
    {r \in Selected : HasRegion(r) /\ LastSegment(FileVal(r, RefArea)) = g}

\* C15: the region of a record is the substring of its identifier after the
\* final "/"; a record without a separator, or with nothing after the last
\* one, has no region and is left out of the per-region aggregate: every
\* returned region is the region of a selected record, and its mean is
\* taken over exactly the selected records with that region.
C15_RegionIsLastSegment ==
    /\ (pc = "reload" /\ err["visual2"] \in {"ok", "TypeError"}) =>
          \A r \in 1..Len(file.rows) :
              Cell(df, r, Governorate) =
                  (IF HasRegion(r) THEN LastSegment(FileVal(r, RefArea))
                   ELSE NaNStr)
    /\ (pc = "reload" /\ err["visual2"] = "ok") =>
          /\ \A i \in 1..Len(main_roads) :
                LET S == RegionMembers(main_roads[i].Governorate) IN
                /\ S # {}
                /\ main_roads[i].value =
                      ExpectedQuotient[SumOver(S, MainGood)][Cardinality(S)]
          /\ \A r \in Selected :
                HasRegion(r) <=>
                    \E i \in 1..Len(main_roads) : r \in RegionMembers(main_roads[i].Governorate)

C15_Witness ==
    /\ pc = "reload"
    /\ err["visual2"] = "ok"
    /\ \E r \in Selected : FileVal(r, RefArea) = <<"a", "/", "a", "/", "C">>
    /\ \E r \in Selected : FileVal(r, RefArea) = <<"a">>
    /\ \E r \in Selected : FileVal(r, RefArea) = <<"a", "/">>
    /\ RegionsIn(main_roads) = {RegionC}

\* str.lower() of the texts that occur in column names
LowerChar(c) ==
    CASE c = "State of the main roads - bad"  -> "state of the main roads - bad"
      [] c = "State of the main roads - good" -> "state of the main roads - good"
      [] c = "Electricity - bad"              -> "electricity - bad"
      [] c = "refArea"                        -> "refarea"
      [] OTHER                                -> c

Lower(s) == [i \in 1..Len(s) |-> LowerChar(s[i])]

\* two names that differ only in letter case or surrounding whitespace
SameField(a, b) == Lower(Strip(a)) = Lower(Strip(b))

\* C16 as claimed: once the file is loaded every column name of the frame
\* is free of leading and trailing whitespace, and a mapped column is found
\* by the severity table whenever the file has a column that differs from
\* it only in letter case or surrounding whitespace.
C16_VariantsAreSameField ==
    /\ df # Unbound =>
          \A i \in 1..Len(df.columns) : df.columns[i] = Strip(df.columns[i])
    /\ (err["visual3"] = "ok" /\ Total > 0) =>
          \A i \in 1..Len(infrastructure_mapping) :
              (\E j \in 1..Len(file.columns) :
                    SameField(file.columns[j], infrastructure_mapping[i][2]))
                  => infrastructure_mapping[i][1] \in ServicesIn(problem_df)

\* C17 as claimed: when the file is missing, the load signals
\* DataUnavailable and a substituted data set is bound in its place, so
\* that no later cell fails for want of its input.
C17_MissingFileRecovered ==
    (~file.exists /\ err["load"] # "notrun") =>
        /\ err["load"] = "DataUnavailable"
        /\ df # Unbound
        /\ \A c \in Cells \ {"load"} : err[c] \in {"notrun", "ok"}

\* C18 as claimed: the second load of the unchanged file is served from the
\* result of the first one: the file is not read again, and the data set
\* it yields has the columns and rows of the first data set, the derived
\* region column included.
C18_SecondLoadMemoized ==
    (pc = "strip" /\ err["reload"] = "ok") =>
        /\ reads = 1
        /\ HasCol(read_csv(file), RefArea) =>
              df = WithGovernorate(read_csv(file))

\* C19 as claimed: no aggregate or insight step (Visual 1 to Visual 4, the
\* callouts) changes the data set: its columns and rows are the same after
\* the step as before it.
C19_AggregatesLeaveDatasetAlone ==
    [][(pc \in {"visual1", "visual2", "visual3", "visual4", "done"})
            => (df' = df)]_vars

RECURSIVE RegionSumsTotal(_, _)
RegionSumsTotal(n, j) ==
    IF n = 0 THEN 0 ELSE RegionSumsTotal(n - 1, j) + region_sums[n].sums[j]

\* the per-region sums were computed from a loaded frame
RegionSumsComputed == pc = "reported" /\ err["reload"] = "ok"

\* each region of the filtered subset once, with the sums of its records
RegionSumsPerRegion ==
    /\ \A r \in Selected :
          HasRegion(r) =>
              \E i \in 1..Len(region_sums) :
                  region_sums[i].Governorate = LastSegment(FileVal(r, RefArea))
    /\ \A i, k \in 1..Len(region_sums) :
          region_sums[i].Governorate = region_sums[k].Governorate => i = k
    /\ \A i \in 1..Len(region_sums) :
          LET S == RegionMembers(region_sums[i].Governorate) IN
          /\ S # {}
          /\ \A j \in 1..Len(transport_columns) :
                region_sums[i].sums[j] = SumOver(S, transport_columns[j][2])

\* C21 as claimed: aggregateTransportSums gives each region of the filtered
\* subset the sums of the three transport-mode columns over its records,
\* and the per-region sums of a mode add up to the sum of the mode over the
\* whole filtered subset.
C21_RegionSumsAddUpToSubset ==
    RegionSumsComputed =>
        /\ RegionSumsPerRegion
        /\ \A j \in 1..Len(transport_columns) :
              RegionSumsTotal(Len(region_sums), j)
                  = SumOver(Selected, transport_columns[j][2])

\* C21 as amended: the per-region sums of a mode add up to the sum of the
\* mode over the records of the filtered subset that have a region; the
\* records without one are in no region's sums.
C21_RegionSumsAddUpToRegionRecords ==
    RegionSumsComputed =>
        /\ RegionSumsPerRegion
        /\ \A j \in 1..Len(transport_columns) :
              RegionSumsTotal(Len(region_sums), j)
                  = SumOver({r \in Selected : HasRegion(r)},
                            transport_columns[j][2])

C21_Witness ==
    /\ RegionSumsComputed
    /\ Len(region_sums) = 2
    /\ \E r \in Selected : ~HasRegion(r) /\ FileVal(r, Buses) = 1
    /\ RegionSumsTotal(2, 1) < SumOver(Selected, Buses)
    /\ RegionSumsTotal(2, 3) > 0

\* a cell that computes an aggregate has run to its end
Aggregated(c) == err[c] = "ok"

\* C22: the region derivation and the trimming of the column names both
\* happen before the first per-region mean, transport sum or service
\* percentage is computed, and no aggregate is computed on a frame that was
\* read again without them.
C22_NormalizedBeforeAggregates ==
    /\ \A c \in {"visual1", "visual2", "visual3", "visual4"} :
          Aggregated(c) => err["strip"] = "ok"
    /\ \A c \in {"visual3", "visual4"} :
          (Aggregated(c) /\ pc \in {"visual4", "done"}) =>
              /\ HasCol(df, Governorate)
              /\ \A i \in 1..Len(df.columns) :
                    df.columns[i] = Strip(df.columns[i])

(***************************************************************************)
(* The counter app                                                         *)
(***************************************************************************)
\* the count a run finds in st.session_state, 0 when there is none
Stored == IF "count" \in DOMAIN session_state THEN session_state["count"] ELSE 0

\* the step is a run of the script
ScriptRun == runs' = runs + 1

\* C23: the count is set to 0 only by a run that finds no "count" entry in
\* the session state; every later run of the session finds the entry and
\* starts from the stored count, which is never put back to 0.
C23_CountSetOnlyWhenAbsent ==
    [][ScriptRun =>
          /\ "count" \in DOMAIN session_state'
          /\ ("count" \notin DOMAIN session_state) => (written'[1] = 0)
          /\ ("count" \in DOMAIN session_state) =>
                /\ written'[1] >= session_state["count"]
                /\ session_state'["count"] >= session_state["count"]
                /\ (session_state["count"] > 0) => (session_state'["count"] > 0)
       ]_vars

C23_Witness ==
    /\ event = "open"
    /\ runs = 4
    /\ "count" \in DOMAIN session_state
    /\ session_state["count"] = 11
    /\ written = <<11, 11>>

\* C24: a click on "Click Me" adds exactly 1 to the count; a click on
\* "Increment by N" adds exactly the slider value N of that run, and N is
\* an integer from 1 to 10, which is 1 as long as the slider has not been
\* moved in the session.
C24_ClicksAddOneAndN ==
    [][/\ (event \in {"none", "new session"}) => (increment = 1)
       /\ increment' \in 1..10
       /\ (event' = "new session") => (increment' = 1)
       /\ (event' \notin {"slider", "new session"}) => (increment' = increment)
       /\ (event' = "click me") => (session_state'["count"] = Stored + 1)
       /\ (event' = "increment") =>
             (session_state'["count"] = Stored + increment')
      ]_vars

C24_Witness ==
    /\ event = "increment"
    /\ increment = 10
    /\ "count" \in DOMAIN session_state
    /\ session_state["count"] = 11
    /\ written = <<1, 11>>

\* C25: within a session the count is a non-negative integer that never
\* goes down, and one run of the script raises it by at most 11.
C25_CountNeverDecreases ==
    [][/\ ("count" \in DOMAIN session_state) => (session_state["count"] \in Nat)
       /\ ScriptRun =>
             /\ session_state'["count"] \in Nat
             /\ session_state'["count"] >= Stored
             /\ session_state'["count"] <= Stored + 11
      ]_vars

C25_Witness ==
    /\ event = "both"
    /\ increment = 10
    /\ "count" \in DOMAIN session_state
    /\ session_state["count"] = 22
    /\ written = <<12, 22>>

\* C26: the "Current count" written by a run includes the 1 of a click on
\* "Click Me" of that run and not the N of a click on "Increment by N" of
\* that run: "Updated count" is "Current count" + N when the second button
\* was clicked and equal to "Current count" otherwise.
C26_CurrentBeforeSecondButton ==
    [][ScriptRun =>
          /\ written'[1] = Stored + (IF event' \in {"click me", "both"} THEN 1 ELSE 0)
          /\ written'[2] = written'[1] +
                 (IF event' \in {"increment", "both"} THEN increment' ELSE 0)
          /\ written'[2] = session_state'["count"]
       ]_vars

C26_Witness ==
    /\ event = "both"
    /\ increment = 3
    /\ written = <<1, 4>>

\* C27: a run in which neither button was clicked, such as the run caused
\* by moving the slider, leaves the stored count as it was.
C27_NoClickNoChange ==
    [][(ScriptRun /\ event' \in {"open", "slider"}) =>
          /\ session_state'["count"] = Stored
          /\ ("count" \in DOMAIN session_state) => (session_state' = session_state)
       ]_vars

C27_Witness ==
    /\ event = "slider"
    /\ increment = 7
    /\ "count" \in DOMAIN session_state
    /\ session_state["count"] = 5
    /\ written = <<5, 5>>

\* a percentage from 0 to 100, both included
InPercentRange(x) == ~IsNaN(x) /\ FLeq(FZero, x) /\ FLeq(x, Hundred)

\* C28: with 0/1 indicator columns and at least one record, every service
\* percentage is from 0 to 100, every affected or covered count is from 0
\* to the number of records, and Areas_Missing, the number of records
\* less Areas_Covered, is not negative.
C28_PercentagesAndCountsInRange ==
    /\ (pc = "done" /\ err["visual3"] = "ok" /\ Total > 0) =>
          \A j \in 1..Len(problem_df) :
              /\ InPercentRange(problem_df[j].Problem_Severity)
              /\ problem_df[j].Areas_Affected \in 0..Total
    /\ (pc = "done" /\ err["visual4"] = "ok" /\ Total > 0) =>
          \A j \in 1..Len(coverage_df) :
              /\ InPercentRange(coverage_df[j].Coverage_Percentage)
              /\ coverage_df[j].Areas_Covered \in 0..Total
              /\ coverage_df[j].Areas_Missing
                    = Total - coverage_df[j].Areas_Covered
              /\ coverage_df[j].Areas_Missing >= 0

C28_Witness ==
    /\ pc = "done"
    /\ err["visual3"] = "ok"
    /\ err["visual4"] = "ok"
    /\ Total = 3
    /\ \E j \in 1..Len(problem_df) :
          /\ problem_df[j].Areas_Affected = 2
          /\ FLess(FZero, problem_df[j].Problem_Severity)
          /\ FLess(problem_df[j].Problem_Severity, Hundred)
    /\ \E j \in 1..Len(coverage_df) :
          /\ coverage_df[j].Areas_Covered = 1
          /\ coverage_df[j].Areas_Missing = 2

\* the services of a mapping whose column the file has
MappedServices(mapping) ==
    {mapping[i][1] : i \in {k \in 1..Len(mapping) : FileHas(mapping[k][2])}}

\* C29: the severity table is in non-decreasing order of Problem_Severity
\* and the coverage table in non-increasing order of Coverage_Percentage;
\* each holds the services it held before sorting, each once.
C29_ServiceTablesOrdered ==
    /\ (pc = "done" /\ err["visual3"] = "ok") =>
          /\ \A i \in 1..(Len(problem_df) - 1) :
                FLeq(problem_df[i].Problem_Severity,
                     problem_df[i + 1].Problem_Severity)
          /\ ServicesIn(problem_df) = MappedServices(infrastructure_mapping)
          /\ Len(problem_df) = Cardinality(ServicesIn(problem_df))
    /\ (pc = "done" /\ err["visual4"] = "ok") =>
          /\ \A i \in 1..(Len(coverage_df) - 1) :
                FLeq(coverage_df[i + 1].Coverage_Percentage,
                     coverage_df[i].Coverage_Percentage)
          /\ ServicesIn(coverage_df) = MappedServices(basic_services)
          /\ Len(coverage_df) = Cardinality(ServicesIn(coverage_df))

\* two services with different percentages in each table; the severity
\* table comes out in another order than the mapping lists them
C29_Witness ==
    /\ pc = "done"
    /\ err["visual3"] = "ok"
    /\ err["visual4"] = "ok"
    /\ Len(problem_df) = 2
    /\ problem_df[1].Service = "Secondary Roads"
    /\ problem_df[2].Service = "Main Roads"
    /\ FLess(problem_df[1].Problem_Severity, problem_df[2].Problem_Severity)
    /\ Len(coverage_df) = 2
    /\ coverage_df[1].Service = "Electricity"
    /\ coverage_df[2].Service = "Good Main Roads"
    /\ FLess(coverage_df[2].Coverage_Percentage, coverage_df[1].Coverage_Percentage)

\* C30: transport_modes holds exactly the categories among Buses, Vans and
\* Taxis whose sum is greater than 0, each once with its sum; a category
\* with sum 0 is left out, and the distribution is empty when all three
\* sums are 0.
C30_OnlyPositiveCategories ==
    (pc = "visual2" /\ err["visual1"] = "ok") =>
        LET positive == {k \in Categories : CategorySum(k) > 0} IN
        /\ {transport_modes[i].k : i \in 1..Len(transport_modes)} = positive
        /\ Len(transport_modes) = Cardinality(positive)
        /\ \A i \in 1..Len(transport_modes) :
              transport_modes[i].v = CategorySum(transport_modes[i].k)
        /\ (positive = {}) => (transport_modes = <<>>)

C30_Witness ==
    /\ pc = "visual2"
    /\ err["visual1"] = "ok"
    /\ Total = 2
    /\ CategorySum("Vans") = 0
    /\ CategorySum("Buses") = 0
    /\ transport_modes = << [k |-> "Taxis", v |-> 2] >>

====
